---- MODULE Spec2Model ----
(***************************************************************************)
(* dworshak-config: a two-level (service, item) -> value store kept as one *)
(* JSON document on disk (core.py), the command handlers built on it       *)
(* (spec.py, cli.py) and the dispatchers that run them (cli_argparse.py,   *)
(* cli_typer.py).                                                          *)
(*                                                                         *)
(* Spec       : the Store API (get / set / remove / list_configs) called   *)
(*              in any order on one file, every save free to fail.         *)
(* SpecCli    : command invocations through the dispatchers, one process   *)
(*              per invocation, on the same file.                          *)
(* SpecPath   : Store instances constructed with a path argument, on a     *)
(*              disk of several paths.                                     *)
(* SpecRace   : two processes running set on the same file, step by step.  *)
(* SpecMirror : the two dispatchers run on the same invocation.            *)
(***************************************************************************)
EXTENDS Integers, Sequences, FiniteSets, TLC

VARIABLES file, last, cli, disk, store, proc, mirror

vars == <<file, last, cli, disk, store, proc, mirror>>

\* The variables of SpecPath, SpecRace and SpecMirror, which Spec and SpecCli
\* leave alone.
rest == <<disk, store, proc, mirror>>

(***************************************************************************)
(* Bounds of the model.                                                    *)
(***************************************************************************)
NumServices == 2

\* Names in the order Python's sorted() puts them (code-point order).
ServiceNames == <<"A", "B", "C">>

ItemNames == <<"1", "2">>

Services == {ServiceNames[k] : k \in 1..NumServices}

Items == {ItemNames[k] : k \in 1..Len(ItemNames)}

\* Two distinct values, one of them the empty string (falsy, but not None).
Values == {"v1", ""}

(***************************************************************************)
(* Python values.                                                          *)
(***************************************************************************)
\* Optional[str]: None is <<>>, a string v is <<v>>.
None == <<>>

Some(v) == <<v>>

\* {} : the dict with no key.
EmptyDict == [k \in {} |-> k]

\* k in d
Has(d, k) == k \in DOMAIN d

\* d[k] = v
DictPut(d, k, v) == [x \in (DOMAIN d) \cup {k} |-> IF x = k THEN v ELSE d[x]]

\* del d[k]
DictDel(d, k) == [x \in (DOMAIN d) \ {k} |-> d[x]]

(***************************************************************************)
(* The file at the store path.  kind says what a reader finds there:       *)
(*   "missing"   no file                                                   *)
(*   "invalid"   text that is not JSON (also a truncated or empty file)    *)
(*   "nonobject" a JSON value that is not an object ("not an object", [])  *)
(*   "object"    a JSON object, doc being the mapping it parses to         *)
(***************************************************************************)
Missing == [kind |-> "missing", doc |-> EmptyDict]

Invalid == [kind |-> "invalid", doc |-> EmptyDict]

NonObject == [kind |-> "nonobject", doc |-> EmptyDict]

\* json.dump(config): the text of a JSON object; json.load gives config back.
JsonObject(config) == [kind |-> "object", doc |-> config]

\* What a save can do to the file: write it whole; fail before the file is
\* opened (mkdir or open raises: the file is untouched); fail after open(.., "w")
\* truncated it (the file holds a prefix of the text, which is not JSON).
SaveOutcomes == {"ok", "openfail", "partial"}

(***************************************************************************)
(* core.py: DworshakConfig                                                 *)
(***************************************************************************)
_load(f) ==
    IF f.kind = "missing" THEN EmptyDict             \* not self.path.exists()
    ELSE IF f.kind = "invalid" THEN EmptyDict        \* json.load raises, caught
    ELSE IF f.kind = "nonobject" THEN EmptyDict      \* not isinstance(data, dict)
    ELSE f.doc

\* Mutant of _save: the file is opened with mode "a", so the text is appended
\* to what the file held.
_save_append(f, config, out) ==
    IF out = "ok"
    THEN (IF f.kind \in {"invalid", "nonobject", "object"} THEN Invalid
          ELSE JsonObject(config))
    ELSE IF out = "partial" THEN Invalid
    ELSE f

\* The exception of a failed save is caught and logged, never raised.
_save(f, config, out) ==
    IF out = "ok" THEN JsonObject(config)
    ELSE IF out = "partial" THEN Invalid
    ELSE f

\* Mutant of get: a falsy value is taken for a missing one.
get_truthy(f, service, item) ==
    LET config == _load(f)
        items  == IF Has(config, service) THEN config[service] ELSE EmptyDict
    IN  IF Has(items, item) /\ items[item] # "" THEN Some(items[item]) ELSE None

\* config.get(service, {}).get(item)
get(f, service, item) ==
    LET config == _load(f)
        items  == IF Has(config, service) THEN config[service] ELSE EmptyDict
    IN  IF Has(items, item) THEN Some(items[item]) ELSE None

\* Mutant of set: the overwrite flag is not looked at.
set_unguarded(f, service, item, value, overwrite, out) ==
    LET config == _load(f)
        c1     == IF ~Has(config, service)
                  THEN DictPut(config, service, EmptyDict)
                  ELSE config
        c2     == DictPut(c1, service, DictPut(c1[service], item, value))
    IN  [file |-> _save(f, c2, out), wrote |-> TRUE]

\* Mutant of set: the service's mapping is made anew for the item, so the
\* other items of the service are dropped.
set_fresh_service(f, service, item, value, overwrite, out) ==
    LET config == _load(f)
    IN  IF ~overwrite /\ Has(config, service) /\ Has(config[service], item)
        THEN [file |-> f, wrote |-> FALSE]
        ELSE LET c2 == DictPut(config, service, DictPut(EmptyDict, item, value))
             IN  [file |-> _save(f, c2, out), wrote |-> TRUE]

\* The result is the file after the call and whether _save was called.
set(f, service, item, value, overwrite, out) ==
    LET config == _load(f)
    IN  IF ~overwrite /\ Has(config, service) /\ Has(config[service], item)
        THEN [file |-> f, wrote |-> FALSE]
        ELSE LET c1 == IF ~Has(config, service)
                       THEN DictPut(config, service, EmptyDict)
                       ELSE config
                 c2 == DictPut(c1, service, DictPut(c1[service], item, value))
             IN  [file |-> _save(f, c2, out), wrote |-> TRUE]

\* Mutant of remove: no early return for a missing entry.
remove_unchecked(f, service, item, out) ==
    LET config == _load(f)
        c1     == IF Has(config, service)
                  THEN DictPut(config, service, DictDel(config[service], item))
                  ELSE config
        c2     == IF Has(c1, service) /\ DOMAIN c1[service] = {}
                  THEN DictDel(c1, service)
                  ELSE c1
    IN  [file |-> _save(f, c2, out), removed |-> TRUE, wrote |-> TRUE]

\* Mutant of remove: the emptied service entry is left in the document.
remove_no_cleanup(f, service, item, out) ==
    LET config == _load(f)
    IN  IF ~Has(config, service) \/ ~Has(config[service], item)
        THEN [file |-> f, removed |-> FALSE, wrote |-> FALSE]
        ELSE LET c1 == DictPut(config, service, DictDel(config[service], item))
             IN  [file |-> _save(f, c1, out), removed |-> TRUE, wrote |-> TRUE]

\* The result is the file after the call, the value returned and whether
\* _save was called.
remove(f, service, item, out) ==
    LET config == _load(f)
    IN  IF ~Has(config, service) \/ ~Has(config[service], item)
        THEN [file |-> f, removed |-> FALSE, wrote |-> FALSE]
        ELSE LET c1 == DictPut(config, service, DictDel(config[service], item))
                 c2 == IF DOMAIN c1[service] = {}
                       THEN DictDel(c1, service)
                       ELSE c1
             IN  [file |-> _save(f, c2, out), removed |-> TRUE, wrote |-> TRUE]

(***************************************************************************)
(* Iteration order.  A dict iterates in insertion order, which for a       *)
(* loaded document is the order of the keys in the file.  The document     *)
(* above does not keep that order; where the code iterates a dict without  *)
(* sorting, the order is an input: a sequence naming every key once.       *)
(***************************************************************************)
Orders(S) == {q \in [1..Cardinality(S) -> S] : \A x \in S : \E k \in DOMAIN q : q[k] = x}

\* The elements of sequence q that are in S, in q's order.
RECURSIVE Filter(_, _)
Filter(q, S) ==
    IF q = <<>> THEN <<>>
    ELSE IF Head(q) \in S THEN <<Head(q)>> \o Filter(Tail(q), S)
    ELSE Filter(Tail(q), S)

RECURSIVE Concat(_)
Concat(qq) == IF qq = <<>> THEN <<>> ELSE Head(qq) \o Concat(Tail(qq))

\* for service, items in config.items(): for item in items: append((service, item))
\* (every items of a two-level document is a dict)
list_configs(f, sOrd, iOrd) ==
    LET config == _load(f)
        ss     == Filter(sOrd, DOMAIN config)
        row(s) == LET ii == Filter(iOrd, DOMAIN config[s])
                  IN  [k \in 1..Len(ii) |-> <<s, ii[k]>>]
    IN  Concat([k \in 1..Len(ss) |-> row(ss[k])])

(***************************************************************************)
(* Spec: calls of the Store API.  last records the latest call: what was   *)
(* asked, what came back, the file before it (pre), and how it follows the *)
(* call before it (chain):                                                 *)
(*   "set"        right after set(service, item, chainValue) with          *)
(*                overwrite=True whose save wrote the file                 *)
(*   "set_lost"   right after such a set whose save failed                 *)
(*   "rm"         right after remove(service, item) that returned True and *)
(*                whose save wrote the file                                *)
(*   "rm_lost"    right after such a remove whose save failed              *)
(*   "none"       otherwise                                                *)
(***************************************************************************)
NoCall == [op |-> "none", service |-> "", item |-> "", value |-> "",
           overwrite |-> TRUE, out |-> "ok", wrote |-> FALSE,
           got |-> None, removed |-> FALSE, listed |-> <<>>,
           chain |-> "none", chainValue |-> ""]

\* cli: the latest command invocation (SpecCli); pc is "idle" between processes.
NoCli == [pc |-> "idle", frontend |-> "", name |-> "", service |-> "", item |-> "",
          value |-> "", flag |-> FALSE, needs |-> FALSE, yes |-> FALSE,
          reply |-> [eof |-> FALSE, text |-> <<"-">>], accepted |-> FALSE,
          out |-> "ok", call |-> "", exc |-> "", kind |-> "", iterEnd |-> "",
          final |-> None,
          exit |-> 0, stdout |-> <<>>, stderr |-> <<>>,
          prompted |-> FALSE, called |-> FALSE]

\* The variables of the other specifications, as Spec and SpecCli keep them.
NoDisk == <<>>

\* No Store instance yet.
NoStore == [op |-> "none", supplied |-> None, path |-> <<>>, existing |-> {},
            service |-> "", item |-> "", value |-> "", overwrite |-> TRUE,
            out |-> "ok", wrote |-> FALSE, got |-> None, removed |-> FALSE,
            listed |-> <<>>]

NoProc == <<>>

NoMirror == [op |-> "none"]

Chain(service, item) ==
    IF last.service # service \/ last.item # item THEN "none"
    ELSE IF last.op = "set" /\ last.overwrite
         THEN (IF last.out = "ok" THEN "set" ELSE "set_lost")
    ELSE IF last.op = "remove" /\ last.removed
         THEN (IF last.out = "ok" THEN "rm" ELSE "rm_lost")
    ELSE "none"

ChainValue(service, item) ==
    IF Chain(service, item) \in {"set", "set_lost"} THEN last.value ELSE ""

InitFiles == {Missing, Invalid, NonObject, JsonObject(EmptyDict)}

Init ==
    /\ file \in InitFiles
    /\ last = [NoCall EXCEPT !.op = "init"] @@ [pre |-> file]
    /\ cli = NoCli
    /\ disk = NoDisk
    /\ store = NoStore
    /\ proc = NoProc
    /\ mirror = NoMirror

Get(service, item) ==
    /\ last' = [NoCall EXCEPT !.op = "get", !.service = service, !.item = item,
                              !.got = get(file, service, item),
                              !.chain = Chain(service, item),
                              !.chainValue = ChainValue(service, item)]
               @@ [pre |-> file]
    /\ UNCHANGED <<file, cli, rest>>

Set(service, item, value, overwrite, out) ==
    LET r == set(file, service, item, value, overwrite, out)
    IN  /\ file' = r.file
        /\ last' = [NoCall EXCEPT !.op = "set", !.service = service, !.item = item,
                                  !.value = value, !.overwrite = overwrite,
                                  !.out = IF r.wrote THEN out ELSE "ok",
                                  !.wrote = r.wrote]
                   @@ [pre |-> file]
        /\ UNCHANGED <<cli, rest>>

Remove(service, item, out) ==
    LET r == remove(file, service, item, out)
    IN  /\ file' = r.file
        /\ last' = [NoCall EXCEPT !.op = "remove", !.service = service, !.item = item,
                                  !.out = IF r.wrote THEN out ELSE "ok",
                                  !.wrote = r.wrote, !.removed = r.removed,
                                  !.chain = Chain(service, item)]
                   @@ [pre |-> file]
        /\ UNCHANGED <<cli, rest>>

ListConfigs(sOrd, iOrd) ==
    /\ last' = [NoCall EXCEPT !.op = "list",
                              !.listed = list_configs(file, sOrd, iOrd)]
               @@ [pre |-> file]
    /\ UNCHANGED <<file, cli, rest>>

Next ==
    \/ \E s \in Services, i \in Items : Get(s, i)
    \/ \E s \in Services, i \in Items, v \in Values, ow \in BOOLEAN, out \in SaveOutcomes :
          Set(s, i, v, ow, out)
    \/ \E s \in Services, i \in Items, out \in SaveOutcomes : Remove(s, i, out)
    \/ \E sOrd \in Orders(Services), iOrd \in Orders(Items) : ListConfigs(sOrd, iOrd)

Spec == Init /\ [][Next]_vars


(***************************************************************************)
(* spec.py: the command handlers.  What one call of a handler does is a    *)
(* record:                                                                 *)
(*   file     the file when the handler's run ends                         *)
(*   stdout   the lines the handler itself printed                         *)
(*   call     how the call ends: "return", "raise", "interrupt"            *)
(*            (KeyboardInterrupt arrived while it ran)                     *)
(*   exc      the exception type raised, "" if none                        *)
(*   kind     the value returned: "none", "bool", "str", "number" (not     *)
(*            iterable), "rows" (an iterable of rows)                      *)
(*   rows     the rows the iterable yields before it ends                  *)
(*   iterEnd  how iterating it ends: "ok", "interrupt", or the exception   *)
(*            type raised by the iterable's own code                       *)
(*   final    set: the value read back                                     *)
(* intr says where an interrupt arrives: "none", "early" (before the       *)
(* handler touched the store), "late" (after its store calls).             *)
(***************************************************************************)
Interrupts == {"none", "early", "late"}

Returned(f, out) ==
    [file |-> f, stdout |-> out, call |-> "return", exc |-> "", kind |-> "none",
     rows |-> <<>>, iterEnd |-> "ok", final |-> None]

Interrupted(f) == [Returned(f, <<>>) EXCEPT !.call = "interrupt"]

Raised(f, exc) == [Returned(f, <<>>) EXCEPT !.call = "raise", !.exc = exc]

\* A printed line is the sequence of its fields: print(value) has one,
\* "  ".join(map(str, row)) has one per element of row; str of a str is itself.
Line(fields) == [k \in 1..Len(fields) |-> fields[k]]

spec_get(f, service, item, intr) ==
    LET value == get(f, service, item)
    IN  IF intr # "none" THEN Interrupted(f)
        ELSE IF value # None THEN Returned(f, <<Line(value)>>)
        ELSE Returned(f, <<>>)

spec_set(f, service, item, value, overwrite, out, intr) ==
    LET r           == set(f, service, item, value, overwrite, out)
        final_value == get(r.file, service, item)
    IN  IF intr = "early" THEN Interrupted(f)
        ELSE IF intr = "late" THEN Interrupted(r.file)
        ELSE IF final_value # None
             THEN [Returned(r.file, <<Line(final_value)>>) EXCEPT !.final = final_value]
        ELSE Raised(r.file, "RuntimeError")

\* Mutant of spec.py's remove: a missing entry is a failure with or without
\* the fail flag.
spec_remove_strict(f, service, item, fail, out, intr) ==
    LET r == remove(f, service, item, out)
    IN  IF intr = "early" THEN Interrupted(f)
        ELSE IF intr = "late" THEN Interrupted(r.file)
        ELSE IF ~r.removed THEN Raised(r.file, "KeyError")
        ELSE [Returned(r.file, <<>>) EXCEPT !.kind = "bool"]

spec_remove(f, service, item, fail, out, intr) ==
    LET r == remove(f, service, item, out)
    IN  IF intr = "early" THEN Interrupted(f)
        ELSE IF intr = "late" THEN Interrupted(r.file)
        ELSE IF ~r.removed /\ fail THEN Raised(r.file, "KeyError")
        ELSE [Returned(r.file, <<>>) EXCEPT !.kind = "bool"]

\* The attributes of a DworshakConfig instance (core.py defines no other).
StoreAttributes == {"path", "_load", "_save", "get", "set", "remove", "list_configs"}

\* list_entries is a generator function: the call returns the generator, its
\* body runs when the dispatcher iterates it.  The body's first store access
\* is cfg.load().
list_entries(f, intr) ==
    LET data == _load(f)
        ss   == Filter(ServiceNames, DOMAIN data)                \* sorted(data.keys())
        row(s) == LET ii == Filter(ItemNames, DOMAIN data[s])    \* sorted(items.keys())
                  IN  [k \in 1..Len(ii) |-> <<s, ii[k], data[s][ii[k]]>>]
        all  == Concat([k \in 1..Len(ss) |-> row(ss[k])])
        gen  == [Returned(f, <<>>) EXCEPT !.kind = "rows"]
    IN  IF intr = "early" THEN Interrupted(f)
        ELSE IF intr = "late" THEN [gen EXCEPT !.iterEnd = "interrupt"]
        ELSE IF "load" \notin StoreAttributes
             THEN [gen EXCEPT !.iterEnd = "AttributeError"]
        ELSE [gen EXCEPT !.rows = all]

\* COMMANDS: name -> needs_confirmation
needs_confirmation(name) == name = "remove"

(***************************************************************************)
(* cli_argparse.py: confirm.  A reply is what input() gives: the line      *)
(* typed, as a sequence of characters, or EOFError on a closed stream.     *)
(***************************************************************************)
Eof == [eof |-> TRUE, text |-> <<>>]

Typed(text) == [eof |-> FALSE, text |-> text]

NoReply == Typed(<<"-">>)

IsSpace(c) == c = " "

\* str.lower, on the characters the replies use
LowerChar(c) ==
    IF c = "Y" THEN "y" ELSE IF c = "E" THEN "e" ELSE IF c = "S" THEN "s"
    ELSE IF c = "N" THEN "n" ELSE c

Lower(t) == [k \in 1..Len(t) |-> LowerChar(t[k])]

RECURSIVE LStrip(_)
LStrip(t) == IF t # <<>> /\ IsSpace(Head(t)) THEN LStrip(Tail(t)) ELSE t

RECURSIVE RStrip(_)
RStrip(t) ==
    IF t # <<>> /\ IsSpace(t[Len(t)]) THEN RStrip(SubSeq(t, 1, Len(t) - 1)) ELSE t

Strip(t) == RStrip(LStrip(t))

confirm(reply) ==
    IF reply.eof THEN FALSE
    ELSE Lower(Strip(reply.text)) \in {<<"y">>, <<"y", "e", "s">>}

(***************************************************************************)
(* The dispatchers.  accepted is what confirm returns if it is asked; h is *)
(* what the handler does if it is called; f is the file before.  The       *)
(* result: the exit status, the two streams, whether the user was          *)
(* prompted, whether the handler was called, and the file after.           *)
(***************************************************************************)
Cancelled(f) ==
    [exit |-> 0, stdout |-> <<>>, stderr |-> << <<"Operation cancelled.">> >>,
     prompted |-> TRUE, called |-> FALSE, file |-> f]

Outcome(h, code, lines, err, prompted) ==
    [exit |-> code, stdout |-> h.stdout \o lines, stderr |-> err,
     prompted |-> prompted, called |-> TRUE, file |-> h.file]

RenderRows(rows) == [k \in 1..Len(rows) |-> Line(rows[k])]

\* Mutant of dispatch: the cancellation is announced but the function goes on
\* to the handler (the return after the notice is missing).
dispatch_no_return(needs, yes, accepted, h, f) ==
    LET prompted  == needs /\ ~yes
        cancelled == prompted /\ ~accepted
        notice    == IF cancelled THEN << <<"Operation cancelled.">> >> ELSE <<>>
    IN  IF h.call = "interrupt"
        THEN Outcome(h, 130, <<>>, notice \o << <<"Interrupted.">> >>, prompted)
        ELSE IF h.call = "raise"
             THEN Outcome(h, 1, <<>>, notice \o << <<"Error: ", h.exc>> >>, prompted)
        ELSE IF h.kind # "rows"
             THEN Outcome(h, 0, <<>>, notice, prompted)
        ELSE IF h.iterEnd = "ok"
             THEN Outcome(h, 0, RenderRows(h.rows), notice, prompted)
        ELSE IF h.iterEnd = "interrupt"
             THEN Outcome(h, 130, RenderRows(h.rows), notice \o << <<"Interrupted.">> >>,
                          prompted)
        ELSE Outcome(h, 1, RenderRows(h.rows), notice \o << <<"Error: ", h.iterEnd>> >>,
                     prompted)

\* cli_argparse.py: dispatch
dispatch(needs, yes, accepted, h, f) ==
    LET prompted == needs /\ ~yes
    IN  IF prompted /\ ~accepted THEN Cancelled(f)
        ELSE IF h.call = "interrupt"
             THEN Outcome(h, 130, <<>>, << <<"Interrupted.">> >>, prompted)
        ELSE IF h.call = "raise"
             THEN Outcome(h, 1, <<>>, << <<"Error: ", h.exc>> >>, prompted)
        ELSE IF h.kind # "rows"      \* None, str, bytes, bool, or not Iterable
             THEN Outcome(h, 0, <<>>, <<>>, prompted)
        ELSE IF h.iterEnd = "ok"
             THEN Outcome(h, 0, RenderRows(h.rows), <<>>, prompted)
        ELSE IF h.iterEnd = "interrupt"
             THEN Outcome(h, 130, RenderRows(h.rows), << <<"Interrupted.">> >>, prompted)
        ELSE Outcome(h, 1, RenderRows(h.rows), << <<"Error: ", h.iterEnd>> >>, prompted)

\* cli_typer.py: dispatch
typer_dispatch(needs, yes, accepted, h, f) ==
    LET prompted == needs /\ ~yes
    IN  IF prompted /\ ~accepted THEN Cancelled(f)
        ELSE IF h.call = "interrupt"
             THEN Outcome(h, 130, <<>>, << <<"Interrupted.">> >>, prompted)
        ELSE IF h.call = "raise"
             THEN Outcome(h, 1, <<>>, << <<"Error: ", h.exc>> >>, prompted)
        ELSE IF h.kind \in {"none", "str", "bool"}
             THEN Outcome(h, 0, <<>>, <<>>, prompted)
        ELSE IF h.kind = "number"    \* iter(result) raises TypeError: pass
             THEN Outcome(h, 0, <<>>, <<>>, prompted)
        ELSE IF h.iterEnd = "ok"
             THEN Outcome(h, 0, RenderRows(h.rows), <<>>, prompted)
        ELSE IF h.iterEnd = "TypeError"         \* except TypeError: pass
             THEN Outcome(h, 0, RenderRows(h.rows), <<>>, prompted)
        ELSE IF h.iterEnd = "interrupt"
             THEN Outcome(h, 130, RenderRows(h.rows), << <<"Interrupted.">> >>, prompted)
        ELSE Outcome(h, 1, RenderRows(h.rows), << <<"Error: ", h.iterEnd>> >>, prompted)

\* cli.py: set, run by Typer without a dispatcher
cli_set(f, service, item, value, overwrite, out) ==
    LET r           == set(f, service, item, value, overwrite, out)
        final_value == get(r.file, service, item)
        h           == [Returned(r.file, <<>>) EXCEPT !.final = final_value]
    IN  IF final_value # None
        THEN Outcome(h, 0, <<Line(final_value)>>, <<>>, FALSE)
        ELSE Outcome(h, 1, <<>>, << <<"Failed to read back value">> >>, FALSE)

(***************************************************************************)
(* SpecCli: one command invocation per step, then the process exits.       *)
(* cli records the invocation: the front end, the command and its          *)
(* arguments (flag is overwrite for set, fail for remove), the reply to    *)
(* the prompt if there was one, what the handler did if it was called (out *)
(* is what its save did), and what the dispatcher gave back.  last.pre is  *)
(* the file before it.                                                     *)
(***************************************************************************)
Frontends == {"argparse", "typer"}

Replies ==
    {Eof} \cup {Typed(t) : t \in {<<"y">>, <<"Y", "E", "S">>, <<" ", "y", "e", "s", " ">>,
                                  <<"n">>, <<>>, <<"y", "y">>}}

\* The answers a prompt can get: the reply typed and what confirm makes of it.
\* typer.confirm is Typer's own; only its result is modelled.
Answers(fe) ==
    IF fe = "argparse"
    THEN {[reply |-> r, accepted |-> confirm(r)] : r \in Replies}
    ELSE {[reply |-> NoReply, accepted |-> b] : b \in BOOLEAN}

NoAnswer == [reply |-> NoReply, accepted |-> FALSE]

Run(fe, needs, yes, accepted, h, f) ==
    IF fe = "argparse" THEN dispatch(needs, yes, accepted, h, f)
    ELSE typer_dispatch(needs, yes, accepted, h, f)

Finish(fe, name, service, item, value, flag, needs, yes, a, out, h, r) ==
    /\ file' = r.file
    /\ last' = [last EXCEPT !.pre = file]
    /\ cli' = [NoCli EXCEPT
                 !.pc = "done", !.frontend = fe, !.name = name,
                 !.service = service, !.item = item, !.value = value,
                 !.flag = flag, !.needs = needs, !.yes = yes,
                 !.reply = IF r.prompted THEN a.reply ELSE NoReply,
                 !.accepted = r.prompted /\ a.accepted,
                 !.out = IF r.called THEN out ELSE "ok",
                 !.call = IF r.called THEN h.call ELSE "",
                 !.exc = IF r.called THEN h.exc ELSE "",
                 !.kind = IF r.called THEN h.kind ELSE "",
                 !.iterEnd = IF r.called THEN h.iterEnd ELSE "",
                 !.final = IF r.called THEN h.final ELSE None,
                 !.exit = r.exit, !.stdout = r.stdout, !.stderr = r.stderr,
                 !.prompted = r.prompted, !.called = r.called]
    /\ UNCHANGED rest

CmdGet(fe, service, item, intr) ==
    /\ cli.pc = "idle"
    /\ \E h \in {spec_get(file, service, item, intr)} :
       \E r \in {Run(fe, needs_confirmation("get"), FALSE, FALSE, h, file)} :
          Finish(fe, "get", service, item, "", FALSE, needs_confirmation("get"), FALSE,
                 NoAnswer, "ok", h, r)

CmdSet(fe, service, item, value, overwrite, out, intr) ==
    /\ cli.pc = "idle"
    /\ \E h \in {spec_set(file, service, item, value, overwrite, out, intr)} :
       \E r \in {Run(fe, needs_confirmation("set"), FALSE, FALSE, h, file)} :
          Finish(fe, "set", service, item, value, overwrite,
                 needs_confirmation("set"), FALSE, NoAnswer, out, h, r)

CmdRemove(fe, service, item, fail, yes, a, out, intr) ==
    /\ cli.pc = "idle"
    /\ \E h \in {spec_remove(file, service, item, fail, out, intr)} :
       \E r \in {Run(fe, needs_confirmation("remove"), yes, a.accepted, h, file)} :
          Finish(fe, "remove", service, item, "", fail,
                 needs_confirmation("remove"), yes, a, out, h, r)

CmdList(fe, intr) ==
    /\ cli.pc = "idle"
    /\ \E h \in {list_entries(file, intr)} :
       \E r \in {Run(fe, needs_confirmation("list"), FALSE, FALSE, h, file)} :
          Finish(fe, "list", "", "", "", FALSE, needs_confirmation("list"), FALSE,
                 NoAnswer, "ok", h, r)

\* cli.py's set command
CliSet(service, item, value, overwrite, out) ==
    /\ cli.pc = "idle"
    /\ \E r \in {cli_set(file, service, item, value, overwrite, out)} :
       \E h \in {[Returned(r.file, <<>>) EXCEPT !.final = get(r.file, service, item)]} :
          Finish("cli", "set", service, item, value, overwrite, FALSE, FALSE,
                 NoAnswer, out, h, r)

(***************************************************************************)
(* dispatch takes any CommandSpec.  Probe runs the dispatchers on a        *)
(* handler that leaves the store alone and ends in any of the ways a       *)
(* handler can.                                                            *)
(***************************************************************************)
Excs == {"RuntimeError", "KeyError", "AttributeError", "TypeError"}

ProbeRows == {<<>>, << <<"r", "1">> >>}

Behaviours(f) ==
    {Interrupted(f)}
    \cup {Raised(f, e) : e \in Excs}
    \cup {[Returned(f, <<>>) EXCEPT !.kind = k] : k \in {"none", "bool", "str", "number"}}
    \cup {[Returned(f, <<>>) EXCEPT !.kind = "rows", !.rows = rr, !.iterEnd = e] :
             rr \in ProbeRows, e \in {"ok", "interrupt"} \cup Excs}

Probe(fe, needs, yes, a, h) ==
    /\ cli.pc = "idle"
    /\ \E r \in {Run(fe, needs, yes, a.accepted, h, file)} :
          Finish(fe, "probe", "", "", "", FALSE, needs, yes, a, "ok", h, r)

\* The process ends; the next invocation is a new process.
Exit ==
    /\ cli.pc = "done"
    /\ cli' = NoCli
    /\ last' = [last EXCEPT !.pre = file]
    /\ UNCHANGED <<file, rest>>

\* One invocation of each command, with the inputs it can get.
InvokeGet ==
    /\ cli.pc = "idle"
    /\ \E fe \in Frontends, s \in Services, i \in Items, intr \in Interrupts :
          CmdGet(fe, s, i, intr)

InvokeSet ==
    /\ cli.pc = "idle"
    /\ \E fe \in Frontends, s \in Services, i \in Items, v \in Values, ow \in BOOLEAN,
          out \in SaveOutcomes, intr \in Interrupts :
          CmdSet(fe, s, i, v, ow, out, intr)

InvokeRemove ==
    /\ cli.pc = "idle"
    /\ \E fe \in Frontends, s \in Services, i \in Items, fail \in BOOLEAN, yes \in BOOLEAN,
          out \in SaveOutcomes, intr \in Interrupts :
          \E a \in (IF yes THEN {NoAnswer} ELSE Answers(fe)) :
             CmdRemove(fe, s, i, fail, yes, a, out, intr)

InvokeList ==
    /\ cli.pc = "idle"
    /\ \E fe \in Frontends, intr \in Interrupts : CmdList(fe, intr)

InvokeCliSet ==
    /\ cli.pc = "idle"
    /\ \E s \in Services, i \in Items, v \in Values, ow \in BOOLEAN, out \in SaveOutcomes :
          CliSet(s, i, v, ow, out)

InvokeProbe ==
    /\ cli.pc = "idle"
    /\ \E fe \in Frontends, needs \in BOOLEAN, yes \in BOOLEAN, h \in Behaviours(file) :
          \E a \in (IF needs /\ ~yes THEN Answers(fe) ELSE {NoAnswer}) :
             Probe(fe, needs, yes, a, h)

NextCli ==
    \/ InvokeGet
    \/ InvokeSet
    \/ InvokeRemove
    \/ InvokeList
    \/ InvokeCliSet
    \/ InvokeProbe
    \/ Exit

SpecCli == Init /\ [][NextCli]_vars

(***************************************************************************)
(* core.py: the store path.  A path is the text of its name, a sequence of *)
(* characters; disk maps each path to the file found there.                *)
(***************************************************************************)
\* Path.home() / ".dworshak" / "config.json", shortened to "~/c.json"
DEFAULT_CONFIG_PATH == <<"~", "/", "c", ".", "j", "s", "o", "n">>

\* "p.json"
JsonPath == <<"p", ".", "j", "s", "o", "n">>

\* "p.jsonl": holds ".json", does not end in it
OtherPath == <<"p", ".", "j", "s", "o", "n", "l">>

Paths == {DEFAULT_CONFIG_PATH, JsonPath, OtherPath}

\* The path argument of the constructor: None, the empty string, or a path.
PathArgs == {None, Some(<<>>)} \cup {Some(p) : p \in Paths}

\* str.endswith
endswith(t, suffix) ==
    /\ Len(t) >= Len(suffix)
    /\ SubSeq(t, Len(t) - Len(suffix) + 1, Len(t)) = suffix

\* Path(path).exists()
exists(d, path) == d[path].kind # "missing"

\* Mutant of __init__: a path that was given is used as it is.
init_unchecked(d, path) ==
    IF path # None /\ path[1] # <<>> THEN path[1] ELSE DEFAULT_CONFIG_PATH

\* DworshakConfig.__init__: the value of self.path
__init__(d, path) ==
    IF /\ path # None /\ path[1] # <<>>                        \* path
       /\ exists(d, path[1])                                   \* Path(path).exists()
       /\ endswith(path[1], <<".", "j", "s", "o", "n">>)       \* str(path).endswith(".json")
    THEN path[1]
    ELSE DEFAULT_CONFIG_PATH

(***************************************************************************)
(* SpecPath: one Store instance at a time, constructed with any path       *)
(* argument and then called, on a disk other programs change too.  store   *)
(* is the instance (supplied: the argument, path: self.path, existing: the *)
(* paths that had a file when it was constructed) with its latest call and *)
(* the disk before that call (pre).                                        *)
(***************************************************************************)
PathServices == {ServiceNames[1]}

PathItems == {ItemNames[1]}

PathFiles == {Missing, Invalid, JsonObject(EmptyDict)}

InitPath ==
    /\ disk \in [Paths -> PathFiles]
    /\ store = NoStore @@ [pre |-> disk]
    /\ file = Missing
    /\ last = [NoCall EXCEPT !.op = "init"] @@ [pre |-> file]
    /\ cli = NoCli
    /\ proc = NoProc
    /\ mirror = NoMirror

Called(op, service, item, value) ==
    [NoStore EXCEPT !.op = op, !.service = service, !.item = item, !.value = value,
                    !.supplied = store.supplied, !.path = store.path,
                    !.existing = store.existing]
    @@ [pre |-> disk]

\* cfg = DworshakConfig(path=path)
Construct(path) ==
    /\ store' = [NoStore EXCEPT !.op = "init", !.supplied = path,
                                !.path = __init__(disk, path),
                                !.existing = {p \in Paths : exists(disk, p)}]
                @@ [pre |-> disk]
    /\ UNCHANGED <<disk, file, last, cli, proc, mirror>>

StoreGet(service, item) ==
    /\ store.op # "none"
    /\ store' = [Called("get", service, item, "") EXCEPT
                    !.got = get(disk[store.path], service, item)]
    /\ UNCHANGED <<disk, file, last, cli, proc, mirror>>

StoreSet(service, item, value, overwrite, out) ==
    /\ store.op # "none"
    /\ LET r == set(disk[store.path], service, item, value, overwrite, out)
       IN  /\ disk' = [disk EXCEPT ![store.path] = r.file]
           /\ store' = [Called("set", service, item, value) EXCEPT
                           !.overwrite = overwrite, !.wrote = r.wrote,
                           !.out = IF r.wrote THEN out ELSE "ok"]
    /\ UNCHANGED <<file, last, cli, proc, mirror>>

StoreRemove(service, item, out) ==
    /\ store.op # "none"
    /\ LET r == remove(disk[store.path], service, item, out)
       IN  /\ disk' = [disk EXCEPT ![store.path] = r.file]
           /\ store' = [Called("remove", service, item, "") EXCEPT
                           !.removed = r.removed, !.wrote = r.wrote,
                           !.out = IF r.wrote THEN out ELSE "ok"]
    /\ UNCHANGED <<file, last, cli, proc, mirror>>

StoreList(sOrd, iOrd) ==
    /\ store.op # "none"
    /\ store' = [Called("list", "", "", "") EXCEPT
                    !.listed = list_configs(disk[store.path], sOrd, iOrd)]
    /\ UNCHANGED <<disk, file, last, cli, proc, mirror>>

\* Another program deletes the file at p, or creates one there.
Elsewhere(p, f) ==
    /\ disk[p] # f
    /\ disk' = [disk EXCEPT ![p] = f]
    /\ store' = IF store.op = "none" THEN NoStore @@ [pre |-> disk']
                ELSE [Called("elsewhere", "", "", "") EXCEPT !.pre = disk']
    /\ UNCHANGED <<file, last, cli, proc, mirror>>

NextPath ==
    \/ \E path \in PathArgs : Construct(path)
    \/ \E s \in PathServices, i \in PathItems : StoreGet(s, i)
    \/ \E s \in PathServices, i \in PathItems, v \in Values, ow \in BOOLEAN,
          out \in SaveOutcomes : StoreSet(s, i, v, ow, out)
    \/ \E s \in PathServices, i \in PathItems, out \in SaveOutcomes : StoreRemove(s, i, out)
    \/ \E sOrd \in Orders(PathServices), iOrd \in Orders(PathItems) : StoreList(sOrd, iOrd)
    \/ \E p \in Paths, f \in {Missing, JsonObject(EmptyDict)} : Elsewhere(p, f)

SpecPath == InitPath /\ [][NextPath]_vars

(***************************************************************************)
(* SpecRace: two processes, each running DworshakConfig.set on the same    *)
(* path, one step of the code at a time: _load and the change in memory,   *)
(* then in _save the open (which truncates the file) and the json.dump     *)
(* with the close (which writes the text from the start of the file).      *)
(* proc holds each process's place and locals (ps), the length of the file *)
(* in characters (size), the processes in the order their writes ended     *)
(* (saved) and whether two of them ever had the file open at once          *)
(* (overlapped).  A process ends "done" (it saved), "skipped" (overwrite   *)
(* protection) or "failed" (its save raised, which _save swallows).        *)
(***************************************************************************)
Procs == {1, 2}

\* len(value) of the stored values
ValueLen(v) == IF v = "" THEN 0 ELSE 2

\* sum(n.values()) of a mapping n to numbers
RECURSIVE SumOver(_)
SumOver(n) ==
    IF DOMAIN n = {} THEN 0
    ELSE LET x == CHOOSE y \in DOMAIN n : TRUE
         IN  n[x] + SumOver([y \in DOMAIN n \ {x} |-> n[y]])

\* The number of characters json.dump(config, f, indent=4) writes; every key
\* is one character long.
TextLen(config) ==
    LET itemLine(items, i) == 8 + 3 + 2 + (ValueLen(items[i]) + 2) + 1
        block(s) ==
            IF DOMAIN config[s] = {} THEN 4 + 3 + 2 + 2 + 1             \* "A": {}
            ELSE (4 + 3 + 2 + 1 + 1)                                     \* "A": {
                 + SumOver([i \in DOMAIN config[s] |-> itemLine(config[s], i)])
                 + (Cardinality(DOMAIN config[s]) - 1)                   \* commas
                 + (4 + 1 + 1)                                           \* }
    IN  IF DOMAIN config = {} THEN 2                                     \* {}
        ELSE 2 + SumOver([s \in DOMAIN config |-> block(s)]) + (Cardinality(DOMAIN config) - 1) + 1

\* config[service] = {} if missing; config[service][item] = value
assign(config, service, item, value) ==
    LET c1 == IF ~Has(config, service) THEN DictPut(config, service, EmptyDict) ELSE config
    IN  DictPut(c1, service, DictPut(c1[service], item, value))

\* Mutant of open_w: the file is opened with mode "r+", which keeps its text.
open_rplus(f, size) == [file |-> f, size |-> size]

\* open(self.path, "w"): the file is there and empty, which is not JSON.
open_w(f, size) == [file |-> Invalid, size |-> 0]

\* json.dump(config, f, indent=4) and the close: the text goes to the start
\* of the file, over what is there; what another process wrote beyond its end
\* stays, and the whole is then not JSON.
json_dump(f, size, config) ==
    IF TextLen(config) >= size
    THEN [file |-> JsonObject(config), size |-> TextLen(config)]
    ELSE [file |-> Invalid, size |-> size]

NoPs == [pc |-> "start", service |-> "", item |-> "", value |-> "", overwrite |-> TRUE,
         loaded |-> EmptyDict, config |-> EmptyDict, seen |-> 0]

RaceFiles ==
    {Missing, Invalid, JsonObject(EmptyDict)}
    \cup {JsonObject(assign(EmptyDict, ServiceNames[1], ItemNames[1], v)) : v \in Values}

InitRace ==
    /\ file \in RaceFiles
    /\ proc = [ps |-> [p \in Procs |-> NoPs],
               size |-> IF file.kind = "object" THEN TextLen(file.doc) ELSE 0,
               saved |-> <<>>, overlapped |-> FALSE]
    /\ last = [NoCall EXCEPT !.op = "init"] @@ [pre |-> file]
    /\ cli = NoCli
    /\ disk = NoDisk
    /\ store = NoStore
    /\ mirror = NoMirror

\* set, up to the call of _save: the load, the overwrite test, the change.
Load(p, service, item, value, overwrite) ==
    /\ proc.ps[p].pc = "start"
    /\ LET config == _load(file)
           skip   == ~overwrite /\ Has(config, service) /\ Has(config[service], item)
       IN  proc' = [proc EXCEPT !.ps[p] =
                      [pc |-> IF skip THEN "skipped" ELSE "loaded",
                       service |-> service, item |-> item, value |-> value,
                       overwrite |-> overwrite, loaded |-> config,
                       config |-> IF skip THEN config
                                  ELSE assign(config, service, item, value),
                       seen |-> Len(proc.saved)]]
    /\ UNCHANGED <<file, last, cli, disk, store, mirror>>

\* _save: mkdir and open; an exception ends _save with the file untouched.
Open(p, ok) ==
    /\ proc.ps[p].pc = "loaded"
    /\ IF ok
       THEN /\ file' = open_w(file, proc.size).file
            /\ proc' = [proc EXCEPT !.ps[p].pc = "opened",
                           !.size = open_w(file, proc.size).size,
                           !.overlapped = @ \/ (\E q \in Procs : proc.ps[q].pc = "opened")]
       ELSE /\ file' = file
            /\ proc' = [proc EXCEPT !.ps[p].pc = "failed"]
    /\ UNCHANGED <<last, cli, disk, store, mirror>>

\* _save: json.dump and the close; an exception leaves the file as it stands.
Dump(p, ok) ==
    /\ proc.ps[p].pc = "opened"
    /\ IF ok
       THEN LET w == json_dump(file, proc.size, proc.ps[p].config)
            IN  /\ file' = w.file
                /\ proc' = [proc EXCEPT !.ps[p].pc = "done", !.size = w.size,
                                        !.saved = Append(@, p)]
       ELSE /\ file' = file
            /\ proc' = [proc EXCEPT !.ps[p].pc = "failed"]
    /\ UNCHANGED <<last, cli, disk, store, mirror>>

NextRace ==
    \/ \E p \in Procs, s \in Services, i \in Items, v \in Values, ow \in BOOLEAN :
          Load(p, s, i, v, ow)
    \/ \E p \in Procs, ok \in BOOLEAN : Open(p, ok)
    \/ \E p \in Procs, ok \in BOOLEAN : Dump(p, ok)

SpecRace == InitRace /\ [][NextRace]_vars

(***************************************************************************)
(* SpecMirror: each step runs cli_argparse.dispatch and cli_typer.dispatch *)
(* on the same invocation: the same command spec (name, needs), yes flag,  *)
(* answer to the prompt and handler run h, on the same file.  mirror keeps *)
(* the invocation and what each dispatcher gave back.  Both dispatchers    *)
(* call the same handler, so the file after is the same for both.          *)
(***************************************************************************)
InitMirror ==
    /\ file \in InitFiles
    /\ mirror = NoMirror
    /\ last = [NoCall EXCEPT !.op = "init"] @@ [pre |-> file]
    /\ cli = NoCli
    /\ disk = NoDisk
    /\ store = NoStore
    /\ proc = NoProc

Both(name, needs, yes, accepted, h) ==
    LET a == dispatch(needs, yes, accepted, h, file)
        t == typer_dispatch(needs, yes, accepted, h, file)
    IN  /\ mirror' = [op |-> name, needs |-> needs, yes |-> yes,
                      accepted |-> (needs /\ ~yes /\ accepted),
                      call |-> h.call, exc |-> h.exc, kind |-> h.kind,
                      rows |-> h.rows, iterEnd |-> h.iterEnd,
                      argparse |-> a, typer |-> t]
        /\ file' = a.file
        /\ UNCHANGED <<last, cli, disk, store, proc>>

MirrorGet(service, item, intr) ==
    Both("get", needs_confirmation("get"), FALSE, FALSE,
         spec_get(file, service, item, intr))

MirrorSet(service, item, value, overwrite, out, intr) ==
    Both("set", needs_confirmation("set"), FALSE, FALSE,
         spec_set(file, service, item, value, overwrite, out, intr))

MirrorRemove(service, item, fail, yes, accepted, out, intr) ==
    Both("remove", needs_confirmation("remove"), yes, accepted,
         spec_remove(file, service, item, fail, out, intr))

MirrorList(intr) ==
    Both("list", needs_confirmation("list"), FALSE, FALSE, list_entries(file, intr))

\* Any CommandSpec: a handler that ends in any of the ways a handler can.
MirrorProbe(needs, yes, accepted, h) == Both("probe", needs, yes, accepted, h)

\* The handlers are run on the entries of one service.
MirrorServices == {ServiceNames[1]}

NextMirror ==
    \/ \E s \in MirrorServices, i \in Items, intr \in Interrupts : MirrorGet(s, i, intr)
    \/ \E s \in MirrorServices, i \in Items, v \in Values, ow \in BOOLEAN, out \in SaveOutcomes,
          intr \in Interrupts : MirrorSet(s, i, v, ow, out, intr)
    \/ \E s \in MirrorServices, i \in Items, fail \in BOOLEAN, yes \in BOOLEAN,
          accepted \in BOOLEAN, out \in SaveOutcomes, intr \in Interrupts :
          MirrorRemove(s, i, fail, yes, accepted, out, intr)
    \/ \E intr \in Interrupts : MirrorList(intr)
    \/ \E needs \in BOOLEAN, yes \in BOOLEAN, accepted \in BOOLEAN, h \in Behaviours(file) :
          MirrorProbe(needs, yes, accepted, h)

SpecMirror == InitMirror /\ [][NextMirror]_vars

(***************************************************************************)
(* Properties of the Store API, checked under Spec.                        *)
(***************************************************************************)
\* The value the file holds at (service, item), read off the document
\* itself: <<v>>, or <<>> when the file is no JSON object or has no such entry.
Persisted(f, service, item) ==
    IF f.kind = "object" /\ service \in DOMAIN f.doc /\ item \in DOMAIN f.doc[service]
    THEN <<f.doc[service][item]>>
    ELSE <<>>

Corrupt(f) == f.kind \in {"invalid", "nonobject"}

\* C1: set(service, item, value) with overwrite=True, whatever the file held
\* before, followed by get(service, item) returns exactly value (the save of
\* the set having written the file).
C1_RoundTrip ==
    (last.op = "get" /\ last.chain = "set") => last.got = <<last.chainValue>>

\* The get follows a set of the empty string.
C1_Witness ==
    /\ last.op = "get"
    /\ last.chain = "set"
    /\ last.chainValue = ""
    /\ last.got = <<"">>

\* C2: on an existing entry, set with overwrite=False does not call the save
\* and leaves the file and the stored value as they were; with overwrite=True
\* the stored value becomes the new one; on a missing entry, set with
\* overwrite=False stores the value (the saves having written the file).
C2_OverwriteProtection ==
    last.op = "set" =>
        LET before == Persisted(last.pre, last.service, last.item)
            after  == Persisted(file, last.service, last.item)
        IN  /\ (before # <<>> /\ ~last.overwrite) =>
                   (~last.wrote /\ file = last.pre /\ after = before)
            /\ (before # <<>> /\ last.overwrite /\ last.out = "ok") =>
                   after = <<last.value>>
            /\ (before = <<>> /\ ~last.overwrite /\ last.out = "ok") =>
                   after = <<last.value>>

\* A set with overwrite=False of a different value on an existing entry.
C2_Witness ==
    /\ last.op = "set"
    /\ ~last.overwrite
    /\ Persisted(last.pre, last.service, last.item) = <<"v1">>
    /\ last.value = ""
    /\ Persisted(file, last.service, last.item) = <<"v1">>

\* C3: on a file that holds invalid JSON or a JSON value that is not an
\* object, get returns None and list_configs returns no entry, and a set on
\* such a file leaves a JSON object that holds (service, item) = value (the
\* save having written the file).
C3_CorruptionTolerance ==
    /\ (last.op = "get" /\ Corrupt(last.pre)) => last.got = <<>>
    /\ (last.op = "list" /\ Corrupt(last.pre)) => last.listed = <<>>
    /\ (last.op = "set" /\ Corrupt(last.pre) /\ last.out = "ok") =>
           /\ file.kind = "object"
           /\ Persisted(file, last.service, last.item) = <<last.value>>

\* A set on a file of invalid JSON has written a JSON object.
C3_Witness ==
    /\ last.op = "set"
    /\ last.pre.kind = "invalid"
    /\ file.kind = "object"
    /\ Persisted(file, last.service, last.item) = <<last.value>>

\* C4: remove on an existing entry returns True; a remove that directly
\* follows a remove of the same entry that returned True (and whose save
\* wrote the file) returns False and leaves the file as the first left it;
\* a remove that returns False does not call the save.
C4_RemoveIdempotent ==
    last.op = "remove" =>
        /\ Persisted(last.pre, last.service, last.item) # <<>> => last.removed
        /\ last.chain = "rm" => (~last.removed /\ file = last.pre)
        /\ ~last.removed => (~last.wrote /\ file = last.pre)

\* The second of two removes of an entry, in a document that holds others.
C4_Witness ==
    /\ last.op = "remove"
    /\ last.chain = "rm"
    /\ ~last.removed
    /\ file.kind = "object"
    /\ DOMAIN file.doc # {}

\* C5: no service key of the persisted document maps to an empty mapping,
\* and removing the only item under a service removes the service key from
\* the persisted document (the save having written the file).
C5_NoEmptyService ==
    /\ file.kind = "object" => \A s \in DOMAIN file.doc : DOMAIN file.doc[s] # {}
    /\ (/\ last.op = "remove"
        /\ last.removed
        /\ last.out = "ok"
        /\ DOMAIN last.pre.doc[last.service] = {last.item})
       => (file.kind = "object" /\ last.service \notin DOMAIN file.doc)

\* The only item of a service was removed while another service stays.
C5_Witness ==
    /\ last.op = "remove"
    /\ last.removed
    /\ last.out = "ok"
    /\ DOMAIN last.pre.doc[last.service] = {last.item}
    /\ DOMAIN last.pre.doc # {last.service}
    /\ last.service \notin DOMAIN file.doc

\* C10: remove returns True only if the entry (service, item) is absent from
\* the persisted document when it returns, and False only if the entry did
\* not exist, also when the write to disk fails.
C10_RemoveTruthful ==
    last.op = "remove" =>
        /\ last.removed => Persisted(file, last.service, last.item) = <<>>
        /\ ~last.removed => Persisted(last.pre, last.service, last.item) = <<>>

(***************************************************************************)
(* Properties of the commands and the dispatchers, checked under SpecCli.  *)
(***************************************************************************)
\* The handler ran to its end: no interrupt arrived in the call or while its
\* rows were iterated.
HandlerInterrupted ==
    cli.call = "interrupt" \/ (cli.call = "return" /\ cli.kind = "rows" /\ cli.iterEnd = "interrupt")

\* The handler's code raised, in the call or while its rows were iterated.
HandlerFailed ==
    cli.call = "raise" \/ (cli.call = "return" /\ cli.kind = "rows" /\ cli.iterEnd \in Excs)

HandlerFailure == IF cli.call = "raise" THEN cli.exc ELSE cli.iterEnd

\* C6, for a set run with overwrite at its default, True: whenever the value
\* the set command reads back differs from the value it was asked to store,
\* or is absent, the command ends with exit status 1; it ends with status 0
\* only when the value was stored and read back.
C6_ReadBackMismatchFails ==
    (cli.pc = "done" /\ cli.name = "set" /\ cli.flag /\ cli.called /\ ~HandlerInterrupted) =>
        /\ cli.final # <<cli.value>> => cli.exit = 1
        /\ cli.exit = 0 =>
               /\ cli.final = <<cli.value>>
               /\ Persisted(file, cli.service, cli.item) = <<cli.value>>

\* Every (service, item) in sorted order, service first.
AllPairs ==
    [k \in 1..(NumServices * Len(ItemNames)) |->
        <<ServiceNames[((k - 1) \div Len(ItemNames)) + 1],
          ItemNames[((k - 1) % Len(ItemNames)) + 1]>>]

StoredPairs(f) == SelectSeq(AllPairs, LAMBDA pr : Persisted(f, pr[1], pr[2]) # <<>>)

\* C7: the list command, run through a dispatcher, prints every stored
\* (service, item) pair once, sorted by service then item, and ends with
\* exit status 0.
C7_ListSortedComplete ==
    (cli.pc = "done" /\ cli.name = "list" /\ ~HandlerInterrupted) =>
        /\ cli.exit = 0
        /\ [k \in 1..Len(cli.stdout) |-> <<cli.stdout[k][1], cli.stdout[k][2]>>]
               = StoredPairs(file)

\* The replies of Replies that say yes.
YesReplies == {Typed(<<"y">>), Typed(<<"Y", "E", "S">>), Typed(<<" ", "y", "e", "s", " ">>)}

\* The confirmation was asked and declined: on the argparse front end any
\* reply that does not say yes, or a closed input stream.
Declined ==
    /\ cli.prompted
    /\ IF cli.frontend = "argparse" THEN cli.reply \notin YesReplies ELSE ~cli.accepted

\* C8: remove prompts unless yes was passed; when the confirmation is
\* declined the handler is not called, the file is unchanged, the
\* cancellation notice is on the error stream and the exit status is 0; the
\* handler of a command that needs confirmation is called only after yes was
\* passed or the confirmation accepted; get, set and list never prompt.
C8_ConfirmationGate ==
    cli.pc = "done" =>
        /\ Declined =>
               /\ ~cli.called
               /\ file = last.pre
               /\ cli.stdout = <<>>
               /\ cli.stderr = << <<"Operation cancelled.">> >>
               /\ cli.exit = 0
        /\ (cli.name = "remove" \/ cli.needs) =>
               /\ cli.prompted = ~cli.yes
               /\ cli.called => (cli.yes \/ (cli.prompted /\ ~Declined))
        /\ cli.name \in {"get", "set", "list"} => (~cli.prompted /\ cli.called)

\* A remove of a stored entry, declined by a closed input stream.
C8_Witness ==
    /\ cli.pc = "done"
    /\ cli.frontend = "argparse"
    /\ cli.name = "remove"
    /\ cli.reply = Eof
    /\ ~cli.called
    /\ Persisted(file, cli.service, cli.item) # <<>>
    /\ cli.exit = 0

\* C9: whenever a dispatcher calls a handler, it ends with exit status 130 if
\* an interrupt arrived while the handler ran, with 1 and 'Error: <message>'
\* on the error stream if the handler raised any other failure, and with 0
\* otherwise.
C9_ExitStatusMapping ==
    (cli.pc = "done" /\ cli.frontend \in Frontends /\ cli.called) =>
        /\ HandlerInterrupted => cli.exit = 130
        /\ HandlerFailed =>
               (cli.exit = 1 /\ cli.stderr = << <<"Error: ", HandlerFailure>> >>)
        /\ (~HandlerInterrupted /\ ~HandlerFailed) => cli.exit = 0

C12_RemoveExitStatus ==
    (cli.pc = "done" /\ cli.name = "remove" /\ cli.called /\ ~HandlerInterrupted) =>
        LET before == Persisted(last.pre, cli.service, cli.item)
            after  == Persisted(file, cli.service, cli.item)
        IN  /\ cli.exit = 1 <=> (before = <<>> /\ cli.flag)
            /\ (before = <<>> /\ cli.flag) =>
                   (cli.stderr = << <<"Error: ", "KeyError">> >> /\ file = last.pre)
            /\ (before = <<>> /\ ~cli.flag) => (cli.exit = 0 /\ file = last.pre)
            /\ before # <<>> => (cli.exit = 0 /\ (cli.out = "ok" => after = <<>>))

\* A confirmed remove with fail set, of an entry the document does not hold
\* while it holds another, has ended with status 1.
C12_Witness ==
    /\ cli.pc = "done"
    /\ cli.name = "remove"
    /\ cli.called
    /\ cli.prompted
    /\ cli.flag
    /\ Persisted(last.pre, cli.service, cli.item) = <<>>
    /\ last.pre.kind = "object"
    /\ DOMAIN last.pre.doc # {}
    /\ cli.exit = 1

(***************************************************************************)
(* Properties of concurrent sets, checked under SpecRace.                  *)
(***************************************************************************)
\* Both processes have ended, none with a failed save, at least one wrote,
\* and no process opened the file for writing while the other had it open:
\* the saves came one after the other, the loads anywhere between their steps.
RaceOver ==
    /\ \A p \in Procs : proc.ps[p].pc \in {"done", "skipped"}
    /\ proc.saved # <<>>
    /\ ~proc.overlapped

LastWriter == proc.saved[Len(proc.saved)]

\* Process o wrote after process w loaded and before w wrote.
SavedBetween(o, w) ==
    /\ Len(proc.saved) = 2
    /\ proc.saved = <<o, w>>
    /\ proc.ps[w].seen = 0

C14_TyperMirrorsArgparse ==
    mirror.op # "none" =>
        /\ mirror.typer.exit = mirror.argparse.exit
        /\ mirror.typer.stdout = mirror.argparse.stdout

(***************************************************************************)
(* The frame of the Store API's mutations, checked under Spec.             *)
(***************************************************************************)
\* Every pair other than (service, item) is in file f exactly as in file g.
OthersAsIn(f, g, service, item) ==
    \A s \in Services, i \in Items :
        <<s, i>> # <<service, item>> => Persisted(f, s, i) = Persisted(g, s, i)

====
